---- MODULE Spec2Model ----
(***************************************************************************)
(* A model of the SalesCallAnalyzer component of src/src/app/page.tsx:     *)
(* its four state hooks, the validateUrl / handleSubmit / handleDownload   *)
(* handlers, the pending setTimeout callbacks, and the guards the rendered *)
(* form puts in front of the handlers.                                     *)
(*                                                                         *)
(* Strings are TLA+ strings; TLC evaluates Len, SubSeq and \o on them.     *)
(* A nullable hook value is <<>> (null) or <<v>> (the value v).            *)
(***************************************************************************)
EXTENDS Integers, Sequences, FiniteSets, TLC

VARIABLES
    url,        \* useState("")            page.tsx:30
    isLoading,  \* useState(false)         page.tsx:31
    result,     \* useState(null)          page.tsx:32
    error,      \* useState(null)          page.tsx:33
    timers,     \* pending setTimeout callbacks, oldest first; each holds the
                \* number of the request cycle that scheduled it
    cycle,      \* history: number of request cycles started so far
    resolved,   \* history: resolved[c] = how often cycle c's callback has run
    downloads,  \* history: the files handed to the browser by a.click()
    last        \* history: the last event handled, <<isLoading, result, error>>
                \* before it, and whether the handler threw

vars == <<url, isLoading, result, error, timers, cycle, resolved, downloads, last>>

visible == <<isLoading, result, error>>

hooks == <<url, isLoading, result, error>>

----------------------------------------------------------------------------
(* Bounds of the model.                                                    *)

MaxCycles == 3

MaxDownloads == 3

----------------------------------------------------------------------------
(* Values.                                                                 *)

NULL == <<>>

Some(v) == <<v>>

\* What `.` does not match in a JavaScript regular expression without the s
\* flag: the line terminators.  U+2028 and U+2029 belong to the class as well
\* but cannot be written in a TLA+ string.
LineTerminators == {"\n", "\r"}

CharAt(s, i) == SubSeq(s, i, i)

----------------------------------------------------------------------------
(* Regular expressions, as RegExp.prototype.test evaluates them: a pattern *)
(* is a tree, Ends(re, s, P) is the set of positions at which a match of   *)
(* re that starts at one of the positions P of s can end (positions count  *)
(* the characters consumed, 0..Len(s)).                                    *)

Lit(str) == [t |-> "lit", s |-> str]

Dot == [t |-> "dot"]

Bol == [t |-> "bol"]

Eol == [t |-> "eol"]

Opt(re) == [t |-> "opt", r |-> re]

Plus(re) == [t |-> "plus", r |-> re]

Cat(res) == [t |-> "cat", rs |-> res]

Alt(res) == [t |-> "alt", rs |-> res]

RECURSIVE Ends(_, _, _)
RECURSIVE CatEnds(_, _, _, _)
RECURSIVE PlusEnds(_, _, _)

Ends(re, s, P) ==
    CASE re.t = "lit" ->
            {p + Len(re.s) : p \in {q \in P : /\ q + Len(re.s) <= Len(s)
                                              /\ SubSeq(s, q + 1, q + Len(re.s)) = re.s}}
      [] re.t = "dot" ->
            {p + 1 : p \in {q \in P : /\ q < Len(s)
                                      /\ CharAt(s, q + 1) \notin LineTerminators}}
      [] re.t = "bol" -> {p \in P : p = 0}
      [] re.t = "eol" -> {p \in P : p = Len(s)}
      [] re.t = "opt" -> P \cup Ends(re.r, s, P)
      [] re.t = "plus" -> PlusEnds(re.r, s, Ends(re.r, s, P))
      [] re.t = "cat" -> CatEnds(re.rs, 1, s, P)
      [] re.t = "alt" -> UNION {Ends(re.rs[i], s, P) : i \in 1..Len(re.rs)}

CatEnds(res, i, s, P) ==
    IF i > Len(res) \/ P = {} THEN P
    ELSE CatEnds(res, i + 1, s, Ends(res[i], s, P))

PlusEnds(re, s, E) ==
    LET N == E \cup Ends(re, s, E)
    IN IF N = E THEN E ELSE PlusEnds(re, s, N)

\* RegExp.prototype.test on a pattern without the g flag: a match may start
\* at any index of the input.
test(re, input) == \E start \in 0..Len(input) : Ends(re, input, {start}) # {}

\* /^(https?:\/\/)?(www\.)?(youtube\.com|youtu\.?be)\/.+$/
youtubeRegex ==
    Cat(<< Bol,
           Opt(Cat(<<Lit("http"), Opt(Lit("s")), Lit("://")>>)),
           Opt(Lit("www.")),
           Alt(<< Lit("youtube.com"),
                  Cat(<<Lit("youtu"), Opt(Lit(".")), Lit("be")>>) >>),
           Lit("/"),
           Plus(Dot),
           Eol >>)

\* The same pattern with its periods left unescaped.
youtubeRegexUnescaped ==
    Cat(<< Bol,
           Opt(Cat(<<Lit("http"), Opt(Lit("s")), Lit("://")>>)),
           Opt(Cat(<<Lit("www"), Dot>>)),
           Alt(<< Cat(<<Lit("youtube"), Dot, Lit("com")>>),
                  Cat(<<Lit("youtu"), Opt(Dot), Lit("be")>>) >>),
           Lit("/"),
           Plus(Dot),
           Eol >>)

validateUrlUnescaped(input) == test(youtubeRegexUnescaped, input)

validateUrl(input) == test(youtubeRegex, input)

----------------------------------------------------------------------------
(* The mock AnalysisResult and its JSON text.                              *)

\* The literal the timer callback hands to setResult.
MockResult ==
    [ talkTimeRatio |-> 65,
      questionsCount |-> 12,
      longestMonologue |-> 42,
      sentiment |-> "positive",
      insights |-> << "Customer showed strong interest in pricing options",
                      "Sales rep effectively addressed objections",
                      "Good use of open-ended questions in the first half",
                      "Consider reducing monologue length to increase engagement" >>,
      transcript |-> "Sales Rep: Hello, thank you for calling. How can I help you today?\nCustomer: Hi, I'm interested in your premium package...\n[Full transcript would be here]" ]

InvalidUrlMessage == "Please enter a valid YouTube URL"

Digit(d) == CharAt("0123456789", d + 1)

RECURSIVE NumberToString(_)
\* Number::toString of an integer.
NumberToString(n) ==
    IF n < 0 THEN "-" \o NumberToString(0 - n)
    ELSE IF n < 10 THEN Digit(n)
    ELSE NumberToString(n \div 10) \o Digit(n % 10)

\* QuoteJSONString's treatment of one character.
EscapeChar(c) ==
    CASE c = "\"" -> "\\\""
      [] c = "\\" -> "\\\\"
      [] c = "\n" -> "\\n"
      [] c = "\r" -> "\\r"
      [] c = "\t" -> "\\t"
      [] c = "\f" -> "\\f"
      [] OTHER -> c

RECURSIVE EscapeRange(_, _, _)
\* The characters lo..hi of s, each escaped, in order (split in halves to keep
\* the evaluation shallow).
EscapeRange(s, lo, hi) ==
    IF lo > hi THEN ""
    ELSE IF lo = hi THEN EscapeChar(CharAt(s, lo))
    ELSE LET mid == (lo + hi) \div 2
         IN EscapeRange(s, lo, mid) \o EscapeRange(s, mid + 1, hi)

QuoteJSONString(s) == "\"" \o EscapeRange(s, 1, Len(s)) \o "\""

RECURSIVE JoinFrom(_, _, _)
\* parts[i], parts[i+1], ... joined by sep.
JoinFrom(parts, i, sep) ==
    IF i > Len(parts) THEN ""
    ELSE IF i = Len(parts) THEN parts[i]
    ELSE parts[i] \o sep \o JoinFrom(parts, i + 1, sep)

\* SerializeJSONArray of an array of strings at indentation `indent`, with a
\* gap of two spaces.
SerializeStringArray(arr, indent) ==
    IF Len(arr) = 0 THEN "[]"
    ELSE LET stepback == indent
             inner == indent \o "  "
             partial == [i \in 1..Len(arr) |-> inner \o QuoteJSONString(arr[i])]
         IN "[\n" \o JoinFrom(partial, 1, ",\n") \o "\n" \o stepback \o "]"

\* The same without the gap argument: JSON.stringify(value).
JSONstringifyCompact(r) ==
    "{" \o JoinFrom(
        << QuoteJSONString("talkTimeRatio") \o ":" \o NumberToString(r.talkTimeRatio),
           QuoteJSONString("questionsCount") \o ":" \o NumberToString(r.questionsCount),
           QuoteJSONString("longestMonologue") \o ":" \o NumberToString(r.longestMonologue),
           QuoteJSONString("sentiment") \o ":" \o QuoteJSONString(r.sentiment),
           QuoteJSONString("insights") \o ":[" \o
               JoinFrom([i \in 1..Len(r.insights) |-> QuoteJSONString(r.insights[i])], 1, ",")
               \o "]",
           QuoteJSONString("transcript") \o ":" \o QuoteJSONString(r.transcript) >>,
        1, ",") \o "}"

\* JSON.stringify(value, null, 2) of an AnalysisResult: its own properties in
\* the order the literal creates them.
JSONstringify(r) ==
    LET inner == "  "
        member(key, text) == inner \o QuoteJSONString(key) \o ": " \o text
    IN "{\n" \o JoinFrom(
        << member("talkTimeRatio", NumberToString(r.talkTimeRatio)),
           member("questionsCount", NumberToString(r.questionsCount)),
           member("longestMonologue", NumberToString(r.longestMonologue)),
           member("sentiment", QuoteJSONString(r.sentiment)),
           member("insights", SerializeStringArray(r.insights, inner)),
           member("transcript", QuoteJSONString(r.transcript)) >>,
        1, ",\n") \o "\n}"

----------------------------------------------------------------------------
(* The component.  Every handler runs to completion; React applies the     *)
(* state updates a handler queued in one batch when it returns.            *)

\* The values typed or pasted into the input in the component's behaviours.
Urls == {"", "not a url", "youtu.be/abc123", "http://youtube.com/x"}

Init ==
    /\ url = ""
    /\ isLoading = FALSE
    /\ result = NULL
    /\ error = NULL
    /\ timers = <<>>
    /\ cycle = 0
    /\ resolved = <<>>
    /\ downloads = <<>>
    /\ last = [op |-> "mount", pre |-> <<FALSE, NULL, NULL>>, threw |-> FALSE]

\* onChange={(e) => setUrl(e.target.value)}
onChange(value) ==
    /\ url' = value
    /\ last' = [op |-> "onChange", pre |-> visible, threw |-> FALSE]
    /\ UNCHANGED <<isLoading, result, error, timers, cycle, resolved, downloads>>

\* handleSubmit with setIsLoading(true) and setTimeout moved in front of the
\* validation.
handleSubmitRequestFirst ==
    /\ result' = NULL
    /\ isLoading' = TRUE
    /\ cycle' = cycle + 1
    /\ timers' = Append(timers, cycle + 1)
    /\ resolved' = Append(resolved, 0)
    /\ error' = IF ~validateUrl(url) THEN Some(InvalidUrlMessage) ELSE NULL
    /\ last' = [op |-> "handleSubmit", pre |-> visible, threw |-> FALSE]
    /\ UNCHANGED <<url, downloads>>

\* handleSubmit without its setResult(null).
handleSubmitKeepResult ==
    /\ IF ~validateUrl(url)
         THEN /\ error' = Some(InvalidUrlMessage)
              /\ UNCHANGED <<isLoading, timers, cycle, resolved>>
         ELSE /\ error' = NULL
              /\ isLoading' = TRUE
              /\ cycle' = cycle + 1
              /\ timers' = Append(timers, cycle + 1)
              /\ resolved' = Append(resolved, 0)
    /\ last' = [op |-> "handleSubmit", pre |-> visible, threw |-> FALSE]
    /\ UNCHANGED <<url, result, downloads>>

\* handleSubmit calling its callback at once instead of through setTimeout.
handleSubmitSynchronous ==
    /\ IF ~validateUrl(url)
         THEN /\ error' = Some(InvalidUrlMessage)
              /\ result' = NULL
              /\ UNCHANGED <<isLoading, cycle, resolved>>
         ELSE /\ error' = NULL
              /\ result' = Some(MockResult)
              /\ isLoading' = FALSE
              /\ cycle' = cycle + 1
              /\ resolved' = Append(resolved, 1)
    /\ last' = [op |-> "handleSubmit", pre |-> visible, threw |-> FALSE]
    /\ UNCHANGED <<url, timers, downloads>>

\* const handleSubmit = (e) => { ... }
handleSubmit ==
    /\ result' = NULL                                    \* setResult(null)
    /\ IF ~validateUrl(url)
         THEN /\ error' = Some(InvalidUrlMessage)        \* setError("Please ...")
              /\ UNCHANGED <<isLoading, timers, cycle, resolved>>   \* return
         ELSE /\ error' = NULL                           \* setError(null)
              /\ isLoading' = TRUE                       \* setIsLoading(true)
              /\ cycle' = cycle + 1
              /\ timers' = Append(timers, cycle + 1)     \* setTimeout(..., 2000)
              /\ resolved' = Append(resolved, 0)
    /\ last' = [op |-> "handleSubmit", pre |-> visible, threw |-> FALSE]
    /\ UNCHANGED <<url, downloads>>

\* The callback with setInterval in place of setTimeout: it stays scheduled.
timeoutRepeating ==
    /\ timers # <<>>
    /\ result' = Some(MockResult)
    /\ isLoading' = FALSE
    /\ resolved' = [resolved EXCEPT ![Head(timers)] = IF @ < 2 THEN @ + 1 ELSE @]
    /\ last' = [op |-> "timeout", pre |-> visible, threw |-> FALSE]
    /\ UNCHANGED <<url, error, timers, cycle, downloads>>

\* The callback without its setIsLoading(false).
timeoutKeepLoading ==
    /\ timers # <<>>
    /\ timers' = Tail(timers)
    /\ result' = Some(MockResult)
    /\ resolved' = [resolved EXCEPT ![Head(timers)] = @ + 1]
    /\ last' = [op |-> "timeout", pre |-> visible, threw |-> FALSE]
    /\ UNCHANGED <<url, isLoading, error, cycle, downloads>>

\* The callback given to setTimeout(..., 2000).  Every timer has the same
\* delay, so pending timers fire in the order they were set, each once.
timeout ==
    /\ timers # <<>>
    /\ timers' = Tail(timers)
    /\ result' = Some(MockResult)                        \* setResult({...})
    /\ isLoading' = FALSE                                \* setIsLoading(false)
    /\ resolved' = [resolved EXCEPT ![Head(timers)] = @ + 1]
    /\ last' = [op |-> "timeout", pre |-> visible, threw |-> FALSE]
    /\ UNCHANGED <<url, error, cycle, downloads>>

\* The file the anchor element is clicked with.
File(type, r) ==
    [ kind |-> type,
      of |-> r,
      data |-> IF type = "json" THEN JSONstringify(r) ELSE r.transcript,
      type |-> IF type = "json" THEN "application/json" ELSE "text/plain",
      download |-> "sales-analysis." \o (IF type = "json" THEN "json" ELSE "txt") ]

\* File with JSON.stringify called without its indentation argument and the
\* blob types of the two kinds exchanged.
FileMixedUp(type, r) ==
    [ kind |-> type,
      of |-> r,
      data |-> IF type = "json" THEN JSONstringifyCompact(r) ELSE r.transcript,
      type |-> IF type = "json" THEN "text/plain" ELSE "application/json",
      download |-> "sales-analysis." \o (IF type = "json" THEN "json" ELSE "txt") ]

\* handleDownload without `if (!result) return`: JSON.stringify(null) is the
\* text null, and null.transcript throws before anything is produced.
handleDownloadUnguarded(type) ==
    /\ downloads' =
          IF result # NULL THEN Append(downloads, File(type, result[1]))
          ELSE IF type = "json"
                 THEN Append(downloads,
                             [ kind |-> type, of |-> NULL, data |-> "null",
                               type |-> "application/json",
                               download |-> "sales-analysis.json" ])
                 ELSE downloads
    /\ last' = [op |-> "handleDownload", pre |-> visible,
                threw |-> (result = NULL /\ type # "json")]
    /\ UNCHANGED <<url, isLoading, result, error, timers, cycle, resolved>>

\* handleDownload producing the mixed-up file.
handleDownloadMixedUp(type) ==
    /\ downloads' = IF result = NULL THEN downloads
                    ELSE Append(downloads, FileMixedUp(type, result[1]))
    /\ last' = [op |-> "handleDownload", pre |-> visible, threw |-> FALSE]
    /\ UNCHANGED <<url, isLoading, result, error, timers, cycle, resolved>>

\* const handleDownload = (type) => { ... }
handleDownload(type) ==
    /\ downloads' = IF result = NULL THEN downloads      \* if (!result) return
                    ELSE Append(downloads, File(type, result[1]))   \* a.click()
    /\ last' = [op |-> "handleDownload", pre |-> visible, threw |-> FALSE]
    /\ UNCHANGED <<url, isLoading, result, error, timers, cycle, resolved>>

DownloadTypes == {"json", "transcript"}

----------------------------------------------------------------------------
(* The rendered page: which handler the user can reach in which state.     *)

\* The submit button without its disabled attribute.
ClickAnalyzeAlways == handleSubmit

\* <form onSubmit={handleSubmit}> with its only submit button
\* disabled={isLoading || !url}: a disabled default button submits nothing.
ClickAnalyze ==
    /\ ~(isLoading \/ url = "")
    /\ handleSubmit

\* The two export buttons are rendered under {result && (...)}.
ClickDownload(type) ==
    /\ result # NULL
    /\ handleDownload(type)

\* The bounds of the model, as guards.
CycleBound == validateUrl(url) => cycle < MaxCycles

DownloadBound == Len(downloads) < MaxDownloads

Next ==
    \/ \E value \in Urls : onChange(value)
    \/ CycleBound /\ ClickAnalyze
    \/ timeout
    \/ \E type \in DownloadTypes : DownloadBound /\ ClickDownload(type)

\* The page as rendered.
Spec == Init /\ [][Next]_vars

\* The page as rendered, with every pending timer eventually firing.
FairSpec == Spec /\ WF_vars(timeout)

NextController ==
    \/ \E value \in Urls : onChange(value)
    \/ CycleBound /\ handleSubmit
    \/ timeout
    \/ \E type \in DownloadTypes : DownloadBound /\ handleDownload(type)

\* The handlers invoked directly, in any state, as the controller's
\* operations submit and export: a submit event dispatched on the form
\* (form.requestSubmit(), a test's fireEvent.submit) does not pass through
\* the button.
SpecController == Init /\ [][NextController]_vars

----------------------------------------------------------------------------
(* validateUrl as a function of its input: the input is drawn from a set   *)
(* of strings built around the pattern's parts, and the handler applies    *)
(* the function to it.                                                     *)

Prefixes == {"", "x"}

Schemes == {"", "http://", "https://", "HTTP://", "ftp://", "http:/", "httpss://"}

Subdomains == {"", "www.", "wwwx", "m."}

Hosts == {"youtube.com", "youtu.be", "youtube", "youtubexcom", "youtuxbe",
          "youtube.co", "vimeo.com", ""}

Slashes == {"", "/"}

Rests == {"", "x", "watch?v=abc123", "abc123", "/", "\n", "x\n", "\rx", "a b"}

Inputs ==
    {"not a url"} \cup
    { a \o b \o c \o d \o e \o f :
        a \in Prefixes, b \in Schemes, c \in Subdomains, d \in Hosts,
        e \in Slashes, f \in Rests }

InitValidate ==
    /\ url \in Inputs
    /\ isLoading = FALSE
    /\ result = NULL
    /\ error = NULL
    /\ timers = <<>>
    /\ cycle = 0
    /\ resolved = <<>>
    /\ downloads = <<>>
    /\ last = [op |-> "mount", pre |-> <<FALSE, NULL, NULL>>, threw |-> FALSE]

NextValidate ==
    \/ CycleBound /\ handleSubmit
    \/ timeout

SpecValidate == InitValidate /\ [][NextValidate]_vars

----------------------------------------------------------------------------
(* The claims.                                                             *)

StaleTimerFires ==
    /\ timers # <<>>
    /\ Len(timers') < Len(timers)
    /\ Head(timers) < cycle

\* C1: when a request's callback runs after a newer request cycle has been
\* started, it leaves isLoading, result and error as they were: only the
\* callback of the most recently started cycle may change them.
C1_StaleResolutionIgnored ==
    [][StaleTimerFires => visible' = visible]_vars

\* C2: in whatever state it is invoked, a submit of a URL that fails
\* validateUrl starts no timer and no request cycle, leaves isLoading as it
\* was, and ends with a non-empty error message and no result.
C2_InvalidSubmitFails ==
    [][(last'.op = "handleSubmit" /\ ~validateUrl(url)) =>
          /\ timers' = timers
          /\ cycle' = cycle
          /\ isLoading' = isLoading
          /\ result' = NULL
          /\ error' # NULL
          /\ Len(error'[1]) > 0]_vars

C2_Witness ==
    /\ last.op = "handleSubmit"
    /\ last.pre[2] # NULL
    /\ ~validateUrl(url)
    /\ error = Some(InvalidUrlMessage)

\* C3: every submit leaves no result, and no error other than the one its own
\* validation sets; a submit of a valid URL ends in Loading with result and
\* error both null, so that nothing of an earlier cycle is shown while Loading.
C3_SubmitClears ==
    /\ [](isLoading => (result = NULL /\ error = NULL))
    /\ [][last'.op = "handleSubmit" =>
            /\ result' = NULL
            /\ IF validateUrl(url)
                 THEN isLoading' /\ error' = NULL
                 ELSE error' = Some(InvalidUrlMessage)]_vars

C3_Witness ==
    /\ last.op = "handleSubmit"
    /\ last.pre[2] # NULL
    /\ isLoading
    /\ result = NULL

\* C4: a result appears only through a timer callback that runs while
\* isLoading is true; the submit that starts a cycle ends in Loading with no
\* result.
C4_LoadingBeforeSuccess ==
    /\ [][(result' # NULL /\ result = NULL) =>
            /\ isLoading
            /\ last'.op = "timeout"
            /\ Len(timers') < Len(timers)]_vars
    /\ [][cycle' # cycle => (isLoading' /\ result' = NULL)]_vars

C4_Witness ==
    /\ last.op = "timeout"
    /\ last.pre = <<TRUE, NULL, NULL>>
    /\ result # NULL
    /\ ~isLoading

\* C5: every cycle's callback runs at most once, Loading is left only by the
\* callback of the current cycle running for the first time, and Loading
\* always leads to Success with isLoading false.
C5_ResolvesExactlyOnce ==
    /\ [](\A c \in 1..Len(resolved) : resolved[c] <= 1)
    /\ [](~isLoading => \A c \in 1..Len(resolved) : resolved[c] = 1)
    /\ [][(isLoading /\ ~isLoading') =>
            /\ last'.op = "timeout"
            /\ resolved[cycle] = 0
            /\ resolved'[cycle] = 1]_vars
    /\ (isLoading ~> (~isLoading /\ result # NULL))

C5_Witness ==
    /\ cycle = 2
    /\ resolved = <<1, 1>>
    /\ ~isLoading
    /\ result # NULL

\* C6: at most one timer is pending, and a request cycle is started only
\* while isLoading is false and the input is not empty.
C6_OneRequestInFlight ==
    /\ [](Len(timers) <= 1)
    /\ [][cycle' # cycle => (~isLoading /\ url # "")]_vars

C6_Witness ==
    /\ cycle = 2
    /\ Len(timers) = 1
    /\ isLoading

HasPrefix(s, p) == Len(s) >= Len(p) /\ SubSeq(s, 1, Len(p)) = p

\* An optional http:// or https://, an optional www., youtube.com or youtu.be
\* (with or without its period), a slash, and at least one more character.
Described(s) ==
    \E scheme \in {"", "http://", "https://"}, www \in {"", "www."},
       host \in {"youtube.com", "youtu.be", "youtube"} :
        LET head == scheme \o www \o host \o "/"
        IN HasPrefix(s, head) /\ Len(s) > Len(head)

HasLineTerminator(s) == \E i \in 1..Len(s) : CharAt(s, i) \in LineTerminators

\* C7 as stated: validateUrl is true exactly for the described strings.
C7_AsStated == validateUrl(url) <=> Described(url)

\* C7: validateUrl is true exactly for the described strings that hold no line
\* terminator, and the handler accepts exactly those.
C7_ValidateMatchesDescription ==
    /\ validateUrl(url) <=> (Described(url) /\ ~HasLineTerminator(url))
    /\ last.op = "handleSubmit" =>
          ((error = NULL) <=> (Described(url) /\ ~HasLineTerminator(url)))

C7_Witness ==
    /\ last.op = "handleSubmit"
    /\ url = "https://www.youtube/watch?v=abc123"
    /\ isLoading
    /\ error = NULL

\* C8: handleDownload called while result is null produces no file, does not
\* throw, and leaves url, isLoading, result, error and the timers unchanged.
C8_ExportWithoutResult ==
    [][(last'.op = "handleDownload" /\ result = NULL) =>
          /\ downloads' = downloads
          /\ ~last'.threw
          /\ hooks' = hooks
          /\ timers' = timers]_vars

C8_Witness ==
    /\ last.op = "handleDownload"
    /\ last.pre = <<TRUE, NULL, NULL>>
    /\ ~last.threw
    /\ downloads = <<>>

\* JSON.stringify(MockResult, null, 2), written out.
MockResultJson ==
    "{\n" \o
    "  \"talkTimeRatio\": 65,\n" \o
    "  \"questionsCount\": 12,\n" \o
    "  \"longestMonologue\": 42,\n" \o
    "  \"sentiment\": \"positive\",\n" \o
    "  \"insights\": [\n" \o
    "    \"Customer showed strong interest in pricing options\",\n" \o
    "    \"Sales rep effectively addressed objections\",\n" \o
    "    \"Good use of open-ended questions in the first half\",\n" \o
    "    \"Consider reducing monologue length to increase engagement\"\n" \o
    "  ],\n" \o
    "  \"transcript\": \"Sales Rep: Hello, thank you for calling. How can I help you today?\\nCustomer: Hi, I'm interested in your premium package...\\n[Full transcript would be here]\"\n" \o
    "}"

Exported(d) ==
    IF d.kind = "transcript"
      THEN /\ d.data = d.of.transcript
           /\ d.type = "text/plain"
           /\ d.download = "sales-analysis.txt"
      ELSE /\ d.of = MockResult => d.data = MockResultJson
           /\ d.type = "application/json"
           /\ d.download = "sales-analysis.json"

\* C9: every file produced is, whatever was exported before it, the transcript
\* of the result as text/plain named sales-analysis.txt or the indented JSON
\* text of the whole result as application/json named sales-analysis.json; an
\* export adds one file made from the current result and changes nothing else.
C9_ExportOutput ==
    /\ [](\A i \in 1..Len(downloads) :
             downloads[i].of = MockResult /\ Exported(downloads[i]))
    /\ [][downloads' # downloads =>
            /\ result # NULL
            /\ Len(downloads') = Len(downloads) + 1
            /\ SubSeq(downloads', 1, Len(downloads)) = downloads
            /\ downloads'[Len(downloads')].of = result[1]
            /\ downloads'[Len(downloads')].kind \in DownloadTypes
            /\ hooks' = hooks
            /\ timers' = timers]_vars

C9_Witness ==
    /\ Len(downloads) = 3
    /\ downloads[1].kind = "json"
    /\ downloads[2].kind = "transcript"
    /\ downloads[3].kind = "json"
    /\ downloads[3] = downloads[1]

\* C10: at most one of isLoading, a result and an error is present.
C10_OneStateAtATime ==
    /\ ~(isLoading /\ result # NULL)
    /\ ~(isLoading /\ error # NULL)
    /\ ~(result # NULL /\ error # NULL)

C10_Witness ==
    /\ last.op = "handleSubmit"
    /\ last.pre[2] # NULL
    /\ error # NULL
    /\ result = NULL
    /\ ~isLoading

====
